---- MODULE Spec2Model ----
(***************************************************************************)
(* Entity subscriptions of snuba (snuba/subscriptions/entity_subscription  *)
(* .py): construction from a payload, the two condition emitters,          *)
(* validate_query, to_dict and the variant registry.                       *)
(***************************************************************************)
EXTENDS Integers, Sequences, FiniteSets, TLC

\* ---------------------------------------------------------------- bounds
MaxOrg == 2           \* organization ids are drawn from 1..MaxOrg
MaxOffset == 2        \* offsets are drawn from -1..MaxOffset
MaxAggregations == 3  \* a query carries 0..MaxAggregations aggregations

\* ------------------------------------------------------- python values
\* A python value keeps its type next to its content, so that an int, a
\* str and None stay distinguishable.
PyNone == [t |-> "NoneType", i |-> 0, s |-> ""]
PyInt(n) == [t |-> "int", i |-> n, s |-> ""]
PyStr(z) == [t |-> "str", i |-> 0, s |-> z]

\* bool(v) of an Optional[str]
Truthy(v) == v /= PyNone /\ v /= PyStr("")

EmptyDict == [k \in {} |-> PyNone]

NoException == [type |-> "None", message |-> ""]

Exception(type, message) == [type |-> type, message |-> message]

\* ------------------------------------------------------- expressions
Column(column_name) == [kind |-> "Column", column_name |-> column_name]

Literal(value) == [kind |-> "Literal", value |-> value]

FunctionCall(function_name, parameters) ==
  [kind |-> "FunctionCall", function_name |-> function_name,
   parameters |-> parameters]

ConditionFunctions ==
  [EQ |-> "equals", LTE |-> "lessOrEq"]

binary_condition(function_name, lhs, rhs) ==
  FunctionCall(function_name, <<lhs, rhs>>)

\* ------------------------------------------------------------ registry
EntityKey == {"sessions", "events", "transactions", "outcomes"}

\* The dict literal as its items in source order, as a mutant with a
\* repeated value.
ENTITY_SUBSCRIPTION_TO_KEY_MAPPER_repeated ==
  << <<"SessionsSubscription", "sessions">>,
     <<"EventsSubscription", "events">>,
     <<"TransactionsSubscription", "events">> >>

\* The dict literal as its items in source order.
ENTITY_SUBSCRIPTION_TO_KEY_MAPPER_items ==
  << <<"SessionsSubscription", "sessions">>,
     <<"EventsSubscription", "events">>,
     <<"TransactionsSubscription", "transactions">> >>

\* A python dict built from items: a later item replaces an earlier one
\* with the same key.
DictOfItems(items) ==
  [k \in {items[n][1] : n \in DOMAIN items} |->
     LET last == CHOOSE n \in DOMAIN items :
                   /\ items[n][1] = k
                   /\ \A m \in DOMAIN items : items[m][1] = k => m <= n
     IN items[last][2]]

ENTITY_SUBSCRIPTION_TO_KEY_MAPPER ==
  DictOfItems(ENTITY_SUBSCRIPTION_TO_KEY_MAPPER_items)

\* {value: key for key, value in ENTITY_SUBSCRIPTION_TO_KEY_MAPPER.items()}
ENTITY_KEY_TO_SUBSCRIPTION_MAPPER ==
  LET items == ENTITY_SUBSCRIPTION_TO_KEY_MAPPER_items
      forward == ENTITY_SUBSCRIPTION_TO_KEY_MAPPER
      \* items() of the dict, in insertion order of first occurrence
      firsts == {n \in DOMAIN items :
                   \A m \in DOMAIN items : items[m][1] = items[n][1] => n <= m}
  IN [k \in {forward[t] : t \in DOMAIN forward} |->
        LET last == CHOOSE n \in firsts :
                      /\ forward[items[n][1]] = k
                      /\ \A m \in firsts : forward[items[m][1]] = k => m <= n
        IN items[last][1]]

\* ----------------------------------------------------------- instances
NoInstance == [type |-> "NoInstance", fields |-> EmptyDict]

Instance(type, fields) == [type |-> type, fields |-> fields]

\* EntitySubscription.__init__: the body is "...", nothing is stored.
EntitySubscription_init(type, data_dict) ==
  [raised |-> NoException, self |-> Instance(type, EmptyDict)]

\* SessionsSubscription.__init__
SessionsSubscription_init(data_dict) ==
  IF "organization" \in DOMAIN data_dict
  THEN [raised |-> NoException,
        self |-> Instance("SessionsSubscription",
                          [k \in {"organization"} |-> data_dict["organization"]])]
  ELSE [raised |-> Exception("InvalidQueryException",
          "organization param is required for any query over sessions entity"),
        self |-> NoInstance]

\* Calling the class registered under a name with a payload.
New(type, data_dict) ==
  IF type = "SessionsSubscription"
  THEN SessionsSubscription_init(data_dict)
  ELSE EntitySubscription_init(type, data_dict)

\* ---------------------------------------------------- condition emitters
\* SessionsSubscription.get_entity_subscription_conditions_for_snql
SessionsSubscription_get_entity_subscription_conditions_for_snql(self, offset) ==
  << binary_condition(ConditionFunctions.EQ,
                      Column("org_id"),
                      Literal(self.fields["organization"])) >>

\* SessionsSubscription.get_entity_subscription_conditions_for_legacy
SessionsSubscription_get_entity_subscription_conditions_for_legacy(self, offset) ==
  <<>>

\* Mutant of the events structured emitter: the bound is strict.
BaseEventsSubscription_get_entity_subscription_conditions_for_snql_strict(self, offset) ==
  IF offset = PyNone
  THEN <<>>
  ELSE << binary_condition(
            "less",
            FunctionCall("ifNull", <<Column("offset"), Literal(PyInt(0))>>),
            Literal(offset)) >>

\* BaseEventsSubscription.get_entity_subscription_conditions_for_snql
BaseEventsSubscription_get_entity_subscription_conditions_for_snql(self, offset) ==
  IF offset = PyNone
  THEN <<>>
  ELSE << binary_condition(
            ConditionFunctions.LTE,
            FunctionCall("ifNull", <<Column("offset"), Literal(PyInt(0))>>),
            Literal(offset)) >>

\* BaseEventsSubscription.get_entity_subscription_conditions_for_legacy
BaseEventsSubscription_get_entity_subscription_conditions_for_legacy(self, offset) ==
  IF offset = PyNone
  THEN <<>>
  ELSE << << <<PyStr("ifNull"), <<PyStr("offset"), PyInt(0)>> >>,
             PyStr("<="), offset >> >>

\* Method resolution of the two emitters on an instance.
get_entity_subscription_conditions_for_snql(self, offset) ==
  IF self.type = "SessionsSubscription"
  THEN SessionsSubscription_get_entity_subscription_conditions_for_snql(self, offset)
  ELSE BaseEventsSubscription_get_entity_subscription_conditions_for_snql(self, offset)

get_entity_subscription_conditions_for_legacy(self, offset) ==
  IF self.type = "SessionsSubscription"
  THEN SessionsSubscription_get_entity_subscription_conditions_for_legacy(self, offset)
  ELSE BaseEventsSubscription_get_entity_subscription_conditions_for_legacy(self, offset)

\* ------------------------------------------------------------- to_dict
\* Mutant of to_dict: every variant serializes to the empty mapping.
to_dict_empty(self) == EmptyDict

\* SessionsSubscription.to_dict / BaseEventsSubscription.to_dict
to_dict(self) ==
  IF self.type = "SessionsSubscription"
  THEN [k \in {"organization"} |-> self.fields["organization"]]
  ELSE EmptyDict

\* ------------------------------------------------------------ the state
VARIABLES
  entities,   \* get_entity: entity key -> required_time_column of the entity
  sub,        \* the instance the last construction produced, or NoInstance
  call,       \* the last call: operation and arguments
  raised,     \* the exception the last call raised, or NoException
  returned,   \* the value the last call returned
  evaluated   \* the checks the last validate_query evaluated, in order

vars == <<entities, sub, call, raised, returned, evaluated>>

\* ------------------------------------------------------------- queries
TimeColumns == {PyNone, PyStr("timestamp")}

QueryColumns == {"timestamp", "project_id"}

\* query.get_from_clause(): a simple Entity, or a composite source.
FromClauses ==
  {[kind |-> "Entity", key |-> k] : k \in EntityKey}
    \cup {[kind |-> "JoinClause", key |-> ""], [kind |-> "CompositeQuery", key |-> ""]}

Queries ==
  [from_clause : FromClauses,
   aggregations : 0..MaxAggregations,
   condition_columns : SUBSET QueryColumns]

NoQuery ==
  [from_clause |-> [kind |-> "None", key |-> ""], aggregations |-> 0,
   condition_columns |-> {}]

get_entity(key) == [required_time_column |-> entities[key]]

\* ---------------------------------------------------------- validators
\* SubscriptionAllowedClausesValidator(max_allowed_aggregations).validate
SubscriptionAllowedClausesValidator_validate(max_allowed_aggregations, query) ==
  IF query.aggregations > max_allowed_aggregations
  THEN Exception("InvalidQueryException", "too many aggregations")
  ELSE NoException

\* NoTimeBasedConditionValidator(required_time_column).validate
NoTimeBasedConditionValidator_validate(required_time_column, query) ==
  IF required_time_column.s \notin query.condition_columns
  THEN Exception("InvalidQueryException", "missing condition on the time column")
  ELSE NoException

\* Mutant of MAX_ALLOWED_AGGREGATIONS: the Sessions override is lost.
MAX_ALLOWED_AGGREGATIONS_base(self) == 1

\* EntitySubscriptionValidation.MAX_ALLOWED_AGGREGATIONS and its override
\* in SessionsSubscription, as self.MAX_ALLOWED_AGGREGATIONS resolves.
MAX_ALLOWED_AGGREGATIONS(self) ==
  IF self.type = "SessionsSubscription" THEN 2 ELSE 1

Outcome(exception, checks) == [raised |-> exception, evaluated |-> checks]

\* Mutant of validate_query: the aggregation limiter runs before the
\* source-shape check.
validate_query_limiter_first(self, query) ==
  LET from_clause == query.from_clause
      clauses == SubscriptionAllowedClausesValidator_validate(
                   MAX_ALLOWED_AGGREGATIONS(self), query)
  IN IF clauses /= NoException
     THEN Outcome(clauses, <<"allowed_clauses">>)
     ELSE IF from_clause.kind /= "Entity"
     THEN Outcome(Exception("InvalidSubscriptionError",
                            "Only simple queries are supported"),
                  <<"allowed_clauses", "from_clause">>)
     ELSE LET entity == get_entity(from_clause.key)
          IN IF Truthy(entity.required_time_column)
             THEN Outcome(NoTimeBasedConditionValidator_validate(
                            entity.required_time_column, query),
                          <<"allowed_clauses", "from_clause", "time_column">>)
             ELSE Outcome(NoException, <<"allowed_clauses", "from_clause">>)

\* Mutant of validate_query: the time-column check runs before the
\* aggregation limiter.
validate_query_time_first(self, query) ==
  LET from_clause == query.from_clause
  IN IF from_clause.kind /= "Entity"
     THEN Outcome(Exception("InvalidSubscriptionError",
                            "Only simple queries are supported"),
                  <<"from_clause">>)
     ELSE LET entity == get_entity(from_clause.key)
              time == IF Truthy(entity.required_time_column)
                      THEN NoTimeBasedConditionValidator_validate(
                             entity.required_time_column, query)
                      ELSE NoException
              ran == IF Truthy(entity.required_time_column)
                     THEN <<"from_clause", "time_column">>
                     ELSE <<"from_clause">>
          IN IF time /= NoException
             THEN Outcome(time, ran)
             ELSE Outcome(SubscriptionAllowedClausesValidator_validate(
                            MAX_ALLOWED_AGGREGATIONS(self), query),
                          ran \o <<"allowed_clauses">>)

\* Mutant of validate_query: the time-column validator runs whether or not
\* the entity declares a required time column.
validate_query_unguarded(self, query) ==
  LET from_clause == query.from_clause
  IN IF from_clause.kind /= "Entity"
     THEN Outcome(Exception("InvalidSubscriptionError",
                            "Only simple queries are supported"),
                  <<"from_clause">>)
     ELSE LET entity == get_entity(from_clause.key)
              clauses == SubscriptionAllowedClausesValidator_validate(
                           MAX_ALLOWED_AGGREGATIONS(self), query)
          IN IF clauses /= NoException
             THEN Outcome(clauses, <<"from_clause", "allowed_clauses">>)
             ELSE Outcome(NoTimeBasedConditionValidator_validate(
                            entity.required_time_column, query),
                          <<"from_clause", "allowed_clauses", "time_column">>)

\* EntitySubscriptionValidation.validate_query: the exception it raises
\* (NoException when it returns) and the checks it evaluated on the way.
validate_query(self, query) ==
  LET from_clause == query.from_clause
  IN IF from_clause.kind /= "Entity"
     THEN Outcome(Exception("InvalidSubscriptionError",
                            "Only simple queries are supported"),
                  <<"from_clause">>)
     ELSE LET entity == get_entity(from_clause.key)
              clauses == SubscriptionAllowedClausesValidator_validate(
                           MAX_ALLOWED_AGGREGATIONS(self), query)
          IN IF clauses /= NoException
             THEN Outcome(clauses, <<"from_clause", "allowed_clauses">>)
             ELSE IF Truthy(entity.required_time_column)
             THEN Outcome(NoTimeBasedConditionValidator_validate(
                            entity.required_time_column, query),
                          <<"from_clause", "allowed_clauses", "time_column">>)
             ELSE Outcome(NoException, <<"from_clause", "allowed_clauses">>)

\* ------------------------------------------- meaning of the two dialects
\* A row of the entity: the columns the emitted conditions mention.
Rows ==
  [offset : {PyNone} \cup {PyInt(n) : n \in -2..(MaxOffset + 1)},
   org_id : {PyInt(n) : n \in 1..MaxOrg}]

RECURSIVE SnqlValue(_, _)
\* Value of a structured expression on a row.
SnqlValue(expression, row) ==
  CASE expression.kind = "Column" -> row[expression.column_name]
    [] expression.kind = "Literal" -> expression.value
    [] expression.kind = "FunctionCall" /\ expression.function_name = "ifNull" ->
         LET first == SnqlValue(expression.parameters[1], row)
         IN IF first = PyNone
            THEN SnqlValue(expression.parameters[2], row)
            ELSE first

Compare(operator, lhs, rhs) ==
  CASE operator \in {"equals", "="} -> lhs /= PyNone /\ lhs = rhs
    [] operator \in {"lessOrEq", "<="} ->
         lhs.t = "int" /\ rhs.t = "int" /\ lhs.i <= rhs.i
    [] operator \in {"less", "<"} ->
         lhs.t = "int" /\ rhs.t = "int" /\ lhs.i < rhs.i

\* Whether a structured binary condition holds on a row.
SnqlHolds(condition, row) ==
  Compare(condition.function_name,
          SnqlValue(condition.parameters[1], row),
          SnqlValue(condition.parameters[2], row))

\* A legacy argument: a string names a column, anything else is a literal.
LegacyArgument(argument, row) ==
  IF argument.t = "str" THEN row[argument.s] ELSE argument

\* Whether a legacy condition [[function, [arguments]], operator, literal]
\* holds on a row.
LegacyHolds(condition, row) ==
  LET function == condition[1][1]
      arguments == condition[1][2]
      first == LegacyArgument(arguments[1], row)
      lhs == IF function = PyStr("ifNull") /\ first = PyNone
             THEN LegacyArgument(arguments[2], row)
             ELSE first
  IN Compare(condition[2].s, lhs, condition[3])

\* The conjunction of a sequence of conditions of each dialect.
SnqlAll(conditions, row) ==
  \A n \in DOMAIN conditions : SnqlHolds(conditions[n], row)

LegacyAll(conditions, row) ==
  \A n \in DOMAIN conditions : LegacyHolds(conditions[n], row)

\* ------------------------------------------------------------- actions
Offsets == {PyNone} \cup {PyInt(n) : n \in -1..MaxOffset}

PayloadKeys == {"organization", "project"}

PayloadValues == {PyNone, PyStr("acme")} \cup {PyInt(n) : n \in 1..MaxOrg}

Payloads == UNION {[keys -> PayloadValues] : keys \in SUBSET PayloadKeys}

Call(op, key, data_dict, offset, query) ==
  [op |-> op, key |-> key, data_dict |-> data_dict, offset |-> offset,
   query |-> query]

Init ==
  /\ entities \in [EntityKey -> TimeColumns]
  /\ sub = NoInstance
  /\ call = Call("none", "", EmptyDict, PyNone, NoQuery)
  /\ raised = NoException
  /\ returned = PyNone
  /\ evaluated = <<>>

\* ENTITY_KEY_TO_SUBSCRIPTION_MAPPER[key](data_dict)
Construct(key, data_dict) ==
  /\ call' = Call("construct", key, data_dict, PyNone, NoQuery)
  /\ IF key \in DOMAIN ENTITY_KEY_TO_SUBSCRIPTION_MAPPER
     THEN LET new == New(ENTITY_KEY_TO_SUBSCRIPTION_MAPPER[key], data_dict)
          IN /\ sub' = new.self
             /\ raised' = new.raised
     ELSE /\ sub' = NoInstance
          /\ raised' = Exception("KeyError", key)
  /\ returned' = PyNone
  /\ evaluated' = <<>>
  /\ UNCHANGED entities

\* sub.get_entity_subscription_conditions_for_snql(offset)
GetConditionsForSnql(offset) ==
  /\ sub /= NoInstance
  /\ call' = Call("conditions_for_snql", "", EmptyDict, offset, NoQuery)
  /\ returned' = get_entity_subscription_conditions_for_snql(sub, offset)
  /\ raised' = NoException
  /\ evaluated' = <<>>
  /\ UNCHANGED <<entities, sub>>

\* sub.get_entity_subscription_conditions_for_legacy(offset)
GetConditionsForLegacy(offset) ==
  /\ sub /= NoInstance
  /\ call' = Call("conditions_for_legacy", "", EmptyDict, offset, NoQuery)
  /\ returned' = get_entity_subscription_conditions_for_legacy(sub, offset)
  /\ raised' = NoException
  /\ evaluated' = <<>>
  /\ UNCHANGED <<entities, sub>>

\* sub.validate_query(query)
ValidateQuery(query) ==
  /\ sub /= NoInstance
  /\ call' = Call("validate_query", "", EmptyDict, PyNone, query)
  /\ LET outcome == validate_query(sub, query)
     IN /\ raised' = outcome.raised
        /\ evaluated' = outcome.evaluated
  /\ returned' = PyNone
  /\ UNCHANGED <<entities, sub>>

\* sub.to_dict()
ToDict ==
  /\ sub /= NoInstance
  /\ call' = Call("to_dict", "", EmptyDict, PyNone, NoQuery)
  /\ returned' = to_dict(sub)
  /\ raised' = NoException
  /\ evaluated' = <<>>
  /\ UNCHANGED <<entities, sub>>

\* The mapping to_dict returned is fed to the class registered for the key
\* of the instance's own type.
Reconstruct ==
  /\ call.op = "to_dict"
  /\ LET key == ENTITY_SUBSCRIPTION_TO_KEY_MAPPER[sub.type]
         new == New(ENTITY_KEY_TO_SUBSCRIPTION_MAPPER[key], returned)
     IN /\ call' = Call("reconstruct", key, returned, PyNone, NoQuery)
        /\ returned' = new.self
        /\ raised' = new.raised
  /\ evaluated' = <<>>
  /\ UNCHANGED <<entities, sub>>

Next ==
  \/ \E key \in EntityKey, data_dict \in Payloads : Construct(key, data_dict)
  \/ \E offset \in Offsets : GetConditionsForSnql(offset)
  \/ \E offset \in Offsets : GetConditionsForLegacy(offset)
  \/ \E query \in Queries : ValidateQuery(query)
  \/ ToDict
  \/ Reconstruct

Spec == Init /\ [][Next]_vars

\* ---------------------------------------------------------- properties
Emitters == {"conditions_for_snql", "conditions_for_legacy"}

EventsTypes == {"EventsSubscription", "TransactionsSubscription"}

\* C1: on a Sessions instance with integer organization o, each of the two emitters
\* returns, for every offset, exactly one condition: org_id = o (in the
\* dialect of the emitter).
C1_SessionsEmittersReturnTenantCondition ==
  (/\ sub.type = "SessionsSubscription"
   /\ sub.fields["organization"].t = "int"
   /\ call.op \in Emitters) =>
    /\ Len(returned) = 1
    /\ call.op = "conditions_for_snql" =>
         returned = << binary_condition(ConditionFunctions.EQ, Column("org_id"),
                                        Literal(sub.fields["organization"])) >>
    /\ call.op = "conditions_for_legacy" =>
         returned = << <<PyStr("org_id"), PyStr("="), sub.fields["organization"]>> >>

\* The bound ifNull(offset, 0) <= k, evaluated directly on a row.
CoalescedOffsetAtMost(k, row) ==
  (IF row.offset = PyNone THEN 0 ELSE row.offset.i) <= k

\* C2: on an Events or Transactions instance each emitter returns the empty
\* sequence for offset None and, for an integer offset k, exactly one
\* condition: LTE(ifNull(Column offset, Literal 0), Literal k) in the
\* structured dialect, [["ifNull", ["offset", 0]], "<=", k] in the legacy
\* dialect; on every row both hold exactly when ifNull(offset, 0) <= k.
C2_EventsEmittersBoundOffset ==
  (sub.type \in EventsTypes /\ call.op \in Emitters) =>
    /\ call.offset = PyNone => returned = <<>>
    /\ call.offset /= PyNone =>
         /\ Len(returned) = 1
         /\ call.op = "conditions_for_snql" =>
              /\ returned =
                   << FunctionCall("lessOrEq",
                        << FunctionCall("ifNull",
                             <<Column("offset"), Literal(PyInt(0))>>),
                           Literal(call.offset) >>) >>
              /\ \A row \in Rows :
                   SnqlAll(returned, row) = CoalescedOffsetAtMost(call.offset.i, row)
         /\ call.op = "conditions_for_legacy" =>
              /\ returned =
                   << << <<PyStr("ifNull"), <<PyStr("offset"), PyInt(0)>> >>,
                         PyStr("<="), call.offset >> >>
              /\ \A row \in Rows :
                   LegacyAll(returned, row) = CoalescedOffsetAtMost(call.offset.i, row)
    /\ \A offset \in Offsets, row \in Rows :
         SnqlAll(get_entity_subscription_conditions_for_snql(sub, offset), row)
           = LegacyAll(get_entity_subscription_conditions_for_legacy(sub, offset), row)

C2_Witness ==
  /\ sub.type = "EventsSubscription"
  /\ call.op = "conditions_for_legacy"
  /\ call.offset = PyInt(1)
  /\ Len(returned) = 1

\* C3: a Sessions instance holds an organization that is present and is an
\* integer; construction from a payload whose organization is missing or
\* is not an integer raises and produces no instance.
C3_SessionsOrganizationIsInteger ==
  /\ sub.type = "SessionsSubscription" =>
       /\ "organization" \in DOMAIN sub.fields
       /\ sub.fields["organization"].t = "int"
  /\ (/\ call.op = "construct"
      /\ call.key = "sessions"
      /\ \/ "organization" \notin DOMAIN call.data_dict
         \/ call.data_dict["organization"].t /= "int") =>
       (raised /= NoException /\ sub = NoInstance)

\* C4: validate_query on a query whose from-clause is not a simple Entity
\* raises, on every variant and whatever the aggregations and conditions
\* are, and the source-shape check is the only check it evaluated.
C4_CompositeSourceFailsFirst ==
  (call.op = "validate_query" /\ call.query.from_clause.kind /= "Entity") =>
    /\ raised = Exception("InvalidSubscriptionError",
                          "Only simple queries are supported")
    /\ evaluated = <<"from_clause">>

C4_Witness ==
  /\ call.op = "validate_query"
  /\ call.query.from_clause.kind = "JoinClause"
  /\ call.query.aggregations = 0
  /\ call.query.condition_columns = QueryColumns
  /\ sub.type = "SessionsSubscription"
  /\ raised /= NoException

\* C5: validate_query raises whenever the query has more aggregations than
\* the limit of the variant, 1 for Events and Transactions and 2 for
\* Sessions: 2 aggregations fail on Events/Transactions and pass the
\* aggregation check on Sessions, 3 fail on every variant.
C5_AggregationLimit ==
  call.op = "validate_query" =>
    LET limit == IF sub.type = "SessionsSubscription" THEN 2 ELSE 1
        simple == call.query.from_clause.kind = "Entity"
    IN /\ call.query.aggregations > limit => raised /= NoException
       /\ (call.query.aggregations = 2 /\ sub.type \in EventsTypes) =>
            raised /= NoException
       /\ (call.query.aggregations = 2 /\ sub.type = "SessionsSubscription"
             /\ simple) =>
            /\ raised /= SubscriptionAllowedClausesValidator_validate(1, call.query)
            /\ "allowed_clauses" \in {evaluated[n] : n \in DOMAIN evaluated}
            /\ evaluated[Len(evaluated)] = "allowed_clauses" => raised = NoException
       /\ call.query.aggregations = 3 => raised /= NoException
       /\ (simple /\ call.query.aggregations > limit) =>
            raised = SubscriptionAllowedClausesValidator_validate(limit, call.query)

C5_Witness ==
  /\ call.op = "validate_query"
  /\ sub.type = "SessionsSubscription"
  /\ call.query.from_clause.kind = "Entity"
  /\ call.query.aggregations = 2
  /\ raised = NoException

C7_ToDictRoundTrip ==
  call.op = "reconstruct" =>
    /\ raised = NoException
    /\ returned = sub
    /\ to_dict(returned) = call.data_dict

C7_Witness ==
  /\ call.op = "reconstruct"
  /\ sub.type = "SessionsSubscription"
  /\ returned.fields["organization"] = PyInt(MaxOrg)

\* C8: the two registry mappings are inverse bijections between the three
\* variant types and the three entity keys, no key and no variant occurs
\* twice, and a construction yields the variant whose key was asked for.
C8_RegistryBijection ==
  LET forward == ENTITY_SUBSCRIPTION_TO_KEY_MAPPER
      backward == ENTITY_KEY_TO_SUBSCRIPTION_MAPPER
      items == ENTITY_SUBSCRIPTION_TO_KEY_MAPPER_items
  IN /\ \A k \in DOMAIN backward :
          backward[k] \in DOMAIN forward /\ forward[backward[k]] = k
     /\ \A t \in DOMAIN forward :
          forward[t] \in DOMAIN backward /\ backward[forward[t]] = t
     /\ Cardinality(DOMAIN forward) = 3
     /\ Cardinality(DOMAIN backward) = 3
     /\ \A m, n \in DOMAIN items :
          (items[m][1] = items[n][1] \/ items[m][2] = items[n][2]) => m = n
     /\ (call.op = "construct" /\ sub /= NoInstance) =>
          forward[sub.type] = call.key

C8_Witness ==
  /\ call.op = "construct"
  /\ call.key = "transactions"
  /\ sub.type = "TransactionsSubscription"

SourceShapeViolated(query) == query.from_clause.kind /= "Entity"

AggregationsViolated(self, query) ==
  query.aggregations > (IF self.type = "SessionsSubscription" THEN 2 ELSE 1)

TimeColumnViolated(query) ==
  /\ query.from_clause.kind = "Entity"
  /\ entities[query.from_clause.key] /= PyNone
  /\ entities[query.from_clause.key].s \notin query.condition_columns

CheckOrder == <<"from_clause", "allowed_clauses", "time_column">>

\* C10: validate_query evaluates source-shape, aggregation limiter and
\* time-column requirement in that order and stops at the first check that
\* fails: the checks evaluated are a prefix of that order ending at the
\* failed check, the exception is that of the earliest violated check, and
\* the three checks fail with pairwise different exceptions.
C10_ChecksInOrderShortCircuit ==
  call.op = "validate_query" =>
    LET query == call.query
        shape == Exception("InvalidSubscriptionError",
                           "Only simple queries are supported")
        limiter == Exception("InvalidQueryException", "too many aggregations")
        time == Exception("InvalidQueryException",
                          "missing condition on the time column")
    IN /\ Len(evaluated) \in 1..3
       /\ evaluated = SubSeq(CheckOrder, 1, Len(evaluated))
       /\ SourceShapeViolated(query) =>
            (raised = shape /\ Len(evaluated) = 1)
       /\ (~SourceShapeViolated(query) /\ AggregationsViolated(sub, query)) =>
            (raised = limiter /\ Len(evaluated) = 2)
       /\ (/\ ~SourceShapeViolated(query)
           /\ ~AggregationsViolated(sub, query)
           /\ TimeColumnViolated(query)) =>
            (raised = time /\ Len(evaluated) = 3)
       /\ (/\ ~SourceShapeViolated(query)
           /\ ~AggregationsViolated(sub, query)
           /\ ~TimeColumnViolated(query)) =>
            raised = NoException
       /\ shape /= limiter /\ limiter /= time /\ shape /= time

C10_Witness ==
  /\ call.op = "validate_query"
  /\ call.query.from_clause.kind = "Entity"
  /\ AggregationsViolated(sub, call.query)
  /\ TimeColumnViolated(call.query)
  /\ raised = Exception("InvalidQueryException", "too many aggregations")
  /\ evaluated = <<"from_clause", "allowed_clauses">>

====
